---- MODULE Spec2Model ----
(***************************************************************************)
(* The asynchronous ingestion pipeline of src/main.py                      *)
(* (class UltraFastDICOMLoader) together with the part of its host         *)
(* (DICOMViewer.on_async_update) that re-enters the pipeline.              *)
(*                                                                         *)
(* Threads.  The scheduler side (Kivy's Clock and the UI handlers) is one  *)
(* thread: scan_folder_async, load_files_async, stop_loading, _check_queue *)
(* and _force_complete_check never overlap one another, so each is one     *)
(* action.  A worker is a thread of its own and is cut into steps at the   *)
(* points where it reads or writes shared state (running, should_stop,     *)
(* the queue, the Clock).  queue.Queue makes every put and get atomic.     *)
(***************************************************************************)
EXTENDS Integers, Sequences, FiniteSets, TLC

\* Bounds of the model.
MaxRuns    == 2      \* accepted requests (workers ever spawned)
MaxFiles   == 2      \* length of the path list handed to load_files_async
MaxBatches == 5      \* probe batches of one scan

\* `while processed < 10` in _check_queue.
DrainLimit == 10

\* `if i % 3 == 0` in _ultra_load_worker.
ProgressEvery == 3

Runs == 1..MaxRuns

VARIABLES
    running,        \* self.running
    should_stop,    \* self.should_stop
    queue,          \* self.queue, a FIFO of messages
    workers,        \* the worker threads ever started, by run number
    nextRun,        \* number of the next worker to start
    polls,          \* Clock events scheduled for _check_queue
    forcePending,   \* Clock.schedule_once events pending for _force_complete_check
    op,             \* "request" when the step just taken was scanAsync or loadAsync
    lastBatch,      \* messages the step just taken gave the callback, in order
    lastRemoved,    \* number of messages the step just taken took off the queue
    lastK,          \* per run, the append number of the last message given to the callback
    termDelivered,  \* runs whose terminal message has reached the callback
    \* _ultra_load_worker seen at the level of its data
    load_pc,        \* where the load worker stands
    total_files,    \* len(file_list)
    enum_i,         \* paths of file_list the loop has finished with
    dcm,            \* what the reads of the paths returned, by place in file_list
    series_dict,    \* series_dict: series key -> list of paths (places in file_list)
    instance_number,\* what _get_instance_number read for each path at the sort
    load_end,       \* how the try statement of the load worker ended
    \* is_dicom_file_ultrafast applied to one file
    file_path,      \* the file handed to is_dicom_file_ultrafast
    probe,          \* what the call returned and the checks it made
    \* scan_folder_ultrafast inside _ultra_scan_worker
    directory,      \* the file system below the root handed to the scan
    recursive,      \* the recursive flag
    scan_pc,        \* where the scan worker stands
    all_files,      \* all_files
    definitely_dicom, \* definitely_dicom
    potential_dicom,  \* potential_dicom
    dicom_files,    \* dicom_files
    batch_i,        \* i of `for i in range(0, len(potential_dicom), batch_size)`
    scan_processed, \* processed
    calls,          \* the percents progress_callback was invoked with, in order
    probed,         \* the files handed to is_dicom_file_ultrafast
    visited,        \* the directories whose files were listed
    \* the normalization of show_image_item and of load_video_file
    pixel_array,    \* dcm.pixel_array: its dtype and its frames
    window_center,  \* getattr(dcm, 'WindowCenter', None)
    window_width,   \* getattr(dcm, 'WindowWidth', None)
    norm_pc,        \* where the normalization stands
    img,            \* img of show_image_item
    video_frames,   \* self.video_frames of load_video_file
    norm_error      \* an exception left the normalization
\* lastK and termDelivered keep a run until its worker has returned and none of
\* its messages is left in the queue: from then on nothing of it can be delivered.

\* The variables of the load worker's data.
orgVars == <<load_pc, total_files, enum_i, dcm, series_dict, instance_number, load_end>>

\* The variables of the detector.
probeVars == <<file_path, probe>>

\* The variables of the scanner.
scanVars == <<directory, recursive, scan_pc, all_files, definitely_dicom, potential_dicom,
              dicom_files, batch_i, scan_processed, calls, probed, visited>>

\* The variables of the normalization.
normVars == <<pixel_array, window_center, window_width, norm_pc, img, video_frames,
              norm_error>>

\* The variables beside the pipeline's.
dataVars == <<orgVars, probeVars, scanVars, normVars>>

vars == <<running, should_stop, queue, workers, nextRun, polls, forcePending,
          op, lastBatch, lastRemoved, lastK, termDelivered, dataVars>>

\* A message tuple ('progress', ...), ('complete', ...), ('scan_complete', ...),
\* ('error', ...).  run and k (the worker's append count) identify it; data is
\* the payload: the bucketed paths of a 'complete', the found files of a
\* 'scan_complete', the progress figure of a 'progress'.
Msg(type, r, k, data) == [type |-> type, run |-> r, k |-> k, data |-> data]

Terminal == {"complete", "scan_complete", "error"}

\* A thread that was never started, or that has returned.
NoWorker ==
    [kind |-> "none", pc |-> "done", n |-> 0, i |-> 0, batches |-> 0,
     found |-> FALSE, bucketed |-> {}, k |-> 0, nComplete |-> 0, nError |-> 0,
     crashed |-> FALSE, sawStop |-> FALSE]

\* The thread started by scan_folder_async / load_files_async.
NewWorker(kind, n) ==
    [NoWorker EXCEPT !.kind = kind, !.n = n,
                     !.pc = IF kind = "scan" THEN "scan_walk" ELSE "load_loop"]

Active(w) == w.pc # "done"

ActiveRuns == {r \in Runs : Active(workers[r])}

\* No load worker is looked at in detail.
OrgIdle ==
    /\ load_pc = "none"
    /\ total_files = 0
    /\ enum_i = 0
    /\ dcm = <<>>
    /\ series_dict = <<>>
    /\ instance_number = <<>>
    /\ load_end = "none"

\* No file is being classified.
ProbeIdle ==
    /\ file_path = <<>>
    /\ probe = <<>>

\* No scan is looked at in detail.
ScanIdle ==
    /\ directory = <<>>
    /\ recursive = FALSE
    /\ scan_pc = "none"
    /\ all_files = <<>>
    /\ definitely_dicom = <<>>
    /\ potential_dicom = <<>>
    /\ dicom_files = <<>>
    /\ batch_i = 0
    /\ scan_processed = 0
    /\ calls = <<>>
    /\ probed = {}
    /\ visited = {}

\* No buffer is being normalized.
NormIdle ==
    /\ pixel_array = <<>>
    /\ window_center = <<>>
    /\ window_width = <<>>
    /\ norm_pc = "none"
    /\ img = <<>>
    /\ video_frames = <<>>
    /\ norm_error = FALSE

Init ==
    /\ OrgIdle
    /\ ProbeIdle
    /\ ScanIdle
    /\ NormIdle
    /\ running = FALSE
    /\ should_stop = FALSE
    /\ queue = <<>>
    /\ workers = [r \in Runs |-> NoWorker]
    /\ nextRun = 1
    /\ polls = 0
    /\ forcePending = 0
    /\ op = "other"
    /\ lastBatch = <<>>
    /\ lastRemoved = 0
    /\ lastK = [r \in Runs |-> 0]
    /\ termDelivered = {}

(***************************************************************************)
(* Scheduler side: the requests and stop.                                  *)
(***************************************************************************)

\* A run of which nothing can be delivered any more.
Spent(r) == ~Active(workers[r]) /\ \A j \in 1..Len(queue) : queue[j].run # r

KeptK == [r \in Runs |-> IF Spent(r) THEN 0 ELSE lastK[r]]

KeptTerm == {r \in termDelivered : ~Spent(r)}

\* A step that is no drain gives the callback nothing.
NoDrain ==
    /\ lastBatch' = <<>>
    /\ lastRemoved' = 0
    /\ lastK' = KeptK
    /\ termDelivered' = KeptTerm
    /\ UNCHANGED dataVars

\* scan_folder_async without its test of running.
ScanRequestRejected_unguarded(flag) == FALSE

\* `if self.running: return` of scan_folder_async.
ScanRequestRejected(flag) == flag

\* load_files_async without its test of running.
LoadRequestRejected_unguarded(flag) == FALSE

\* `if self.running: return` of load_files_async.
LoadRequestRejected(flag) == flag

\* running = True; should_stop = False; Thread(...).start().  The
\* Clock.schedule_interval(self._check_queue, 0.05) that follows is the
\* caller's polls' below.
Spawn(kind, n) ==
    /\ nextRun <= MaxRuns
    /\ running' = TRUE
    /\ should_stop' = FALSE
    /\ workers' = [workers EXCEPT ![nextRun] = NewWorker(kind, n)]
    /\ nextRun' = nextRun + 1

scan_folder_async ==
    /\ op' = "request"
    /\ IF ScanRequestRejected(running)
       THEN UNCHANGED <<running, should_stop, workers, nextRun, polls>>
       ELSE Spawn("scan", 0) /\ polls' = polls + 1
    /\ NoDrain
    /\ UNCHANGED <<queue, forcePending>>

load_files_async(n) ==
    /\ op' = "request"
    /\ IF LoadRequestRejected(running)
       THEN UNCHANGED <<running, should_stop, workers, nextRun, polls>>
       ELSE Spawn("load", n) /\ polls' = polls + 1
    /\ NoDrain
    /\ UNCHANGED <<queue, forcePending>>

stop_loading ==
    /\ should_stop' = TRUE
    /\ op' = "other"
    /\ NoDrain
    /\ UNCHANGED <<running, queue, workers, nextRun, polls, forcePending>>

(***************************************************************************)
(* Worker side.                                                            *)
(***************************************************************************)

\* The worker's bookkeeping of one self.queue.put.
Counted(w, type) ==
    [w EXCEPT !.k = @ + 1,
              !.nComplete = @ + (IF type \in {"complete", "scan_complete"} THEN 1 ELSE 0),
              !.nError = @ + (IF type = "error" THEN 1 ELSE 0)]

\* self.queue.put((type, data)) by worker r: the worker and the queue after it.
Put(q, w, r, type, data) ==
    [w |-> Counted(w, type), q |-> Append(q, Msg(type, r, w.k + 1, data))]

\* progress_update of _ultra_scan_worker: a put unless should_stop is set.
progress_update(q, w, r, data) ==
    IF should_stop THEN [w |-> w, q |-> q] ELSE Put(q, w, r, "progress", data)

\* A handler that reports whatever the flag.
HandlerReports_always(flag) == TRUE

\* `if not self.should_stop:` of the workers' `except Exception` handlers.
HandlerReports(flag) == ~flag

\* A handler that returns from the worker at once, as if `self.running = False`
\* stood inside the try statement.
AfterExcept_returns == "done"

\* Where a worker goes from its `except Exception` handler: to the
\* `self.running = False` that follows the try statement.
AfterExcept == "exit"

\* `except Exception as e: if not self.should_stop: self.queue.put(('error', ...))`
\* of either worker.  sawStop keeps the flag as the handler found it.
ExceptHandler(q, w, r) ==
    LET h == IF HandlerReports(should_stop) THEN Put(q, w, r, "error", {})
             ELSE [w |-> w, q |-> q]
    IN  [w |-> [h.w EXCEPT !.crashed = TRUE, !.sawStop = should_stop, !.pc = AfterExcept],
         q |-> h.q]

\* A worker step: worker r becomes res.w, the queue res.q.
WorkerStep(r, res, name) ==
    /\ workers' = [workers EXCEPT ![r] = res.w]
    /\ queue' = res.q
    /\ op' = "other"
    /\ NoDrain
    /\ UNCHANGED <<running, should_stop, nextRun, polls>>

\* scan_folder_ultrafast up to its batch loop: the walk, the partition by
\* extension and the first progress report.
scan_walk(r) ==
    LET w == workers[r] IN
    /\ w.kind = "scan" /\ w.pc = "scan_walk"
    /\ UNCHANGED forcePending
    /\ \/ \* the directory cannot be read: progress_callback(0, error), return []
          WorkerStep(r, LET p == progress_update(queue, w, r, {0})
                        IN [w |-> [p.w EXCEPT !.pc = "scan_post"], q |-> p.q], "scan")
       \/ \* no file at all: return [] without a report
          WorkerStep(r, [w |-> [w EXCEPT !.pc = "scan_post"], q |-> queue], "scan")
       \/ \* files: progress_callback(5, ...); from here on the result may hold files
          WorkerStep(r, LET p == progress_update(queue, w, r, {5})
                        IN [w |-> [p.w EXCEPT !.pc = "scan_batch", !.found = TRUE],
                            q |-> p.q], "scan")
       \/ \* an exception leaves scan_folder_ultrafast
          WorkerStep(r, ExceptHandler(queue, w, r), "scan")

\* One turn of `for i in range(0, len(potential_dicom), batch_size)`: the
\* batch is probed and reported; the loop never reads should_stop.
scan_batch(r) ==
    LET w == workers[r] IN
    /\ w.kind = "scan" /\ w.pc = "scan_batch"
    /\ UNCHANGED forcePending
    /\ \/ /\ w.batches < MaxBatches
          /\ WorkerStep(r, LET b == [w EXCEPT !.batches = @ + 1]
                            IN progress_update(queue, b, r, {5 + b.batches}), "scan")
       \/ \* the range is exhausted: return dicom_files
          WorkerStep(r, [w |-> [w EXCEPT !.pc = "scan_post"], q |-> queue], "scan")
       \/ WorkerStep(r, ExceptHandler(queue, w, r), "scan")

\* `if not self.should_stop: self.queue.put(('scan_complete', dicom_files))`
\* sawStop keeps the flag as this check found it.
scan_post(r) ==
    LET w0 == workers[r]
        w == [w0 EXCEPT !.sawStop = should_stop] IN
    /\ w0.kind = "scan" /\ w0.pc = "scan_post"
    /\ UNCHANGED forcePending
    /\ IF should_stop
       THEN WorkerStep(r, [w |-> [w EXCEPT !.pc = "exit"], q |-> queue], "scan")
       ELSE \E files \in (IF w.found THEN {{}, {1}} ELSE {{}}) :
               WorkerStep(r, LET p == Put(queue, w, r, "scan_complete", files)
                             IN [w |-> [p.w EXCEPT !.pc = "scan_final"], q |-> p.q], "scan")

\* self.queue.put(('progress', 100, ...)) inside the same `if`.
scan_final(r) ==
    LET w == workers[r] IN
    /\ w.kind = "scan" /\ w.pc = "scan_final"
    /\ UNCHANGED forcePending
    /\ WorkerStep(r, LET p == Put(queue, w, r, "progress", {100})
                     IN [w |-> [p.w EXCEPT !.pc = "exit"], q |-> p.q], "scan")

\* A loop head that does not look at the flag.
LoopObservesStop_never(flag) == FALSE

\* `if self.should_stop: break` at the head of the load loop.
LoopObservesStop(flag) == flag

\* The head of `for i, file_path in enumerate(file_list)`: the loop ends when
\* the list is exhausted or the flag is seen; otherwise the extraction of the
\* next path begins.  w.i counts the paths whose extraction has begun, so the
\* path in hand has enumerate index w.i - 1 and is path number w.i of the list.
load_loop(r) ==
    LET w == workers[r] IN
    /\ w.kind = "load" /\ w.pc = "load_loop"
    /\ UNCHANGED forcePending
    /\ WorkerStep(r, [w |-> IF w.i = w.n \/ LoopObservesStop(should_stop)
                            THEN [w EXCEPT !.pc = "load_post"]
                            ELSE [w EXCEPT !.pc = "load_extract", !.i = @ + 1],
                      q |-> queue], "load")

\* `if i % 3 == 0 or i == total_files - 1`
ReportsProgress(i, n) == i % ProgressEvery = 0 \/ i = n - 1

\* The body of the load loop for the path in hand.
load_extract(r) ==
    LET w == workers[r] IN
    /\ w.kind = "load" /\ w.pc = "load_extract"
    /\ UNCHANGED forcePending
    /\ \/ \* metadata read: bucket the path, report progress
          WorkerStep(r, LET b == [w EXCEPT !.bucketed = @ \cup {w.i}, !.pc = "load_loop"]
                        IN IF ReportsProgress(w.i - 1, w.n)
                           THEN Put(queue, b, r, "progress", {(w.i * 100) \div w.n})
                           ELSE [w |-> b, q |-> queue], "load")
       \/ \* per-file failure: print and continue
          WorkerStep(r, [w |-> [w EXCEPT !.pc = "load_loop"], q |-> queue], "load")
       \/ \* the print of the per-file handler raises: the outer handler runs
          WorkerStep(r, ExceptHandler(queue, w, r), "load")

\* A check after the loop that does not look at the flag.
PostObservesStop_never(flag) == FALSE

\* `if not self.should_stop:` after the load loop.
PostObservesStop(flag) == flag

\* After the loop: `if not self.should_stop:` sort, put 'complete',
\* Clock.schedule_once(_force_complete_check).  sawStop keeps the flag as
\* this check found it.
load_post(r) ==
    LET w0 == workers[r]
        w == [w0 EXCEPT !.sawStop = should_stop] IN
    /\ w0.kind = "load" /\ w0.pc = "load_post"
    /\ IF PostObservesStop(should_stop)
       THEN /\ WorkerStep(r, [w |-> [w EXCEPT !.pc = "exit"], q |-> queue], "load")
            /\ UNCHANGED forcePending
       ELSE \/ /\ WorkerStep(r, LET p == Put(queue, w, r, "complete", w.bucketed)
                                IN [w |-> [p.w EXCEPT !.pc = "exit"], q |-> p.q], "load")
               /\ forcePending' = forcePending + 1
            \/ \* the print before the put raises
               /\ WorkerStep(r, ExceptHandler(queue, w, r), "load")
               /\ UNCHANGED forcePending

\* `self.running = False`, the last statement of either worker.
worker_exit(r) ==
    LET w == workers[r] IN
    /\ w.pc = "exit"
    /\ running' = FALSE
    /\ workers' = [workers EXCEPT ![r] = NoWorker]
    /\ op' = "other"
    /\ NoDrain
    /\ UNCHANGED <<should_stop, queue, nextRun, polls, forcePending>>

(***************************************************************************)
(* Scheduler side: the two drains.  A drain runs on the scheduler thread   *)
(* and reads nothing the worker writes but the queue, so a put that falls  *)
(* between two of its gets is a put that came before the drain or after    *)
(* it: the whole invocation is one action.                                 *)
(***************************************************************************)

\* A get that takes the newest message instead of the oldest.
get_nowait_lifo(q) == [msg |-> q[Len(q)], rest |-> SubSeq(q, 1, Len(q) - 1)]

\* self.queue.get_nowait() on a queue that is not empty.
get_nowait(q) == [msg |-> Head(q), rest |-> Tail(q)]

\* The loop of _check_queue: up to DrainLimit gets; a 'progress' goes to the
\* callback and the loop goes on, any terminal message goes to the callback
\* and ends the invocation; queue.Empty ends it too.
RECURSIVE CheckLoop(_, _)
CheckLoop(q, processed) ==
    IF ~(processed < DrainLimit) \/ q = <<>>
    THEN [batch |-> <<>>, rest |-> q, term |-> FALSE]
    ELSE LET g == get_nowait(q) IN
         IF g.msg.type = "progress"
         THEN LET d == CheckLoop(g.rest, processed + 1)
              IN  [batch |-> <<g.msg>> \o d.batch, rest |-> d.rest, term |-> d.term]
         ELSE [batch |-> <<g.msg>>, rest |-> g.rest, term |-> TRUE]

\* The loop of _force_complete_check: `while True` gets until queue.Empty; a
\* 'complete' goes to the callback and ends the invocation, a 'progress' goes
\* to the callback, a message of any other type is taken and dropped.
RECURSIVE ForceLoop(_)
ForceLoop(q) ==
    IF q = <<>>
    THEN [batch |-> <<>>, rest |-> q]
    ELSE LET g == get_nowait(q) IN
         IF g.msg.type = "complete"
         THEN [batch |-> <<g.msg>>, rest |-> g.rest]
         ELSE LET d == ForceLoop(g.rest)
              IN  [batch |-> (IF g.msg.type = "progress" THEN <<g.msg>> ELSE <<>>) \o d.batch,
                   rest |-> d.rest]

\* lastK after the callback has seen batch.
Seen(lk, batch) ==
    [r \in Runs |->
        LET at == {j \in 1..Len(batch) : batch[j].run = r}
        IN  IF at = {} THEN lk[r]
            ELSE batch[CHOOSE j \in at : \A j2 \in at : j2 <= j].k]

TerminalRuns(batch) == {batch[j].run : j \in {j2 \in 1..Len(batch) : batch[j2].type \in Terminal}}

\* The record of a drain that took the queue from q to rest and dispatched batch.
Drained(q, rest, batch) ==
    /\ queue' = rest
    /\ lastBatch' = batch
    /\ lastRemoved' = Len(q) - Len(rest)
    /\ lastK' = Seen(KeptK, batch)
    /\ termDelivered' = KeptTerm \cup TerminalRuns(batch)
    /\ UNCHANGED dataVars

\* One firing of a Clock event of _check_queue.  On a terminal message the
\* callback runs first and Clock.unschedule(self._check_queue) after it, which
\* cancels every event of _check_queue, one scheduled by the callback included.
\* on_async_update answers a 'scan_complete' with a non-empty list by
\* load_files_with_progress(data) unless the interface choice is shown or no
\* path of the list is a file.
check_queue ==
    /\ polls > 0
    /\ op' = "other"
    /\ UNCHANGED forcePending
    /\ LET d == CheckLoop(queue, 0) IN
       /\ Drained(queue, d.rest, d.batch)
       /\ IF d.term
          THEN /\ polls' = 0
               /\ LET t == d.batch[Len(d.batch)] IN
                  IF t.type = "scan_complete" /\ t.data # {}
                  THEN \/ UNCHANGED <<running, should_stop, workers, nextRun>>
                       \/ \E n \in 1..MaxFiles :
                             IF LoadRequestRejected(running)
                             THEN UNCHANGED <<running, should_stop, workers, nextRun>>
                             ELSE Spawn("load", n)
                  ELSE UNCHANGED <<running, should_stop, workers, nextRun>>
          ELSE UNCHANGED <<polls, running, should_stop, workers, nextRun>>

\* One firing of the Clock.schedule_once event of _force_complete_check.
force_complete_check ==
    /\ forcePending > 0
    /\ forcePending' = forcePending - 1
    /\ op' = "other"
    /\ LET d == ForceLoop(queue) IN Drained(queue, d.rest, d.batch)
    /\ UNCHANGED <<running, should_stop, workers, nextRun, polls>>

Next ==
    \/ scan_folder_async
    \/ \E n \in 1..MaxFiles : load_files_async(n)
    \/ stop_loading
    \/ check_queue
    \/ force_complete_check
    \/ \E r \in Runs : scan_walk(r)
    \/ \E r \in Runs : scan_batch(r)
    \/ \E r \in Runs : scan_post(r)
    \/ \E r \in Runs : scan_final(r)
    \/ \E r \in Runs : load_loop(r)
    \/ \E r \in Runs : load_extract(r)
    \/ \E r \in Runs : load_post(r)
    \/ \E r \in Runs : worker_exit(r)

Spec == Init /\ [][Next]_vars

(***************************************************************************)
(* The load worker's data.  OrgSpec follows one accepted loadAsync run,    *)
(* _ultra_load_worker, from the read of each path to the 'complete'        *)
(* payload: what each read returns, the series key, the buckets, the sort. *)
(* A path is its place in file_list.  Text is a sequence of pieces, so     *)
(* that an f-string is the concatenation of its pieces.                    *)
(***************************************************************************)

MaxOrgFiles == 3     \* length of file_list in OrgSpec

\* An attribute as getattr finds it: absent, a number, or a value that is
\* no number.
Absent == [t |-> "absent", v |-> 0]

NotANumber == [t |-> "str", v |-> 0]

Number(n) == [t |-> "int", v |-> n]

\* What pydicom.dcmread and is_dicom_video gave for one path.
Header(num, desc, mod, video, frames) ==
    [ok |-> TRUE, series_number |-> num, series_desc |-> desc, modality |-> mod,
     is_video |-> video, frames |-> frames]

\* A path whose read or whose bucketing raised.
NoHeader ==
    [ok |-> FALSE, series_number |-> Absent, series_desc |-> <<>>, modality |-> <<>>,
     is_video |-> FALSE, frames |-> 0]

\* The headers a path may carry: a plain one, and others that differ from it
\* in one attribute each.
Headers ==
    { Header(Number(1), <<"A">>, <<"CT">>, FALSE, 1),
      Header(Number(0), <<"A">>, <<"CT">>, FALSE, 1),
      Header(Absent,    <<"A">>, <<"CT">>, FALSE, 1),
      Header(Number(1), <<"A">>, <<"MR">>, FALSE, 1),
      Header(Number(1), <<"A", " (", "B", ")">>, <<"CT">>, FALSE, 1),
      Header(Number(1), <<"A">>, <<"B", ")", " (", "CT">>, FALSE, 1),
      Header(Number(1), <<"A">>, <<"CT">>, TRUE, 2),
      Header(Number(1), <<"A">>, <<"CT">>, TRUE, 3) }

\* What _get_instance_number may find in a path's InstanceNumber.
InstanceRaws == {Absent, NotANumber, Number(0 - 1), Number(1)}

Digits == <<"0", "1", "2", "3", "4", "5", "6", "7", "8", "9">>

\* f"{n:03d}" for 0 <= n <= 999.
Format03d(n) ==
    <<Digits[((n \div 100) % 10) + 1], Digits[((n \div 10) % 10) + 1],
      Digits[(n % 10) + 1]>>

\* A video indicator that leaves the frame count out.
video_indicator_flag(h) == IF h.is_video THEN <<" [VIDEO]">> ELSE <<>>

\* video_indicator = f" [VIDEO-{frames}F]" if is_video else ""
video_indicator(h) ==
    IF h.is_video THEN <<" [VIDEO-", Digits[h.frames + 1], "F]">> ELSE <<>>

\* series_key: f"{int(series_number):03d} - {series_desc} ({modality}){video_indicator}"
\* when series_number is an int or a float, f"000 - ..." otherwise; an absent
\* SeriesNumber is the string '0'.
series_key(h) ==
    (IF h.series_number.t = "int" THEN Format03d(h.series_number.v) ELSE <<"0", "0", "0">>)
        \o <<" - ">> \o h.series_desc \o <<" (">> \o h.modality \o <<")">>
        \o video_indicator(h)

\* A bucketing that appends the path to every bucket there is.
AddToBucket_all(d, key, path) ==
    [k \in DOMAIN d \cup {key} |->
        IF k \in DOMAIN d THEN Append(d[k], path) ELSE <<path>>]

\* `if series_key not in series_dict: series_dict[series_key] = {'files': [], ...}`
\* and `series_dict[series_key]['files'].append(file_path)`.
AddToBucket(d, key, path) ==
    [k \in DOMAIN d \cup {key} |->
        IF k = key
        THEN (IF key \in DOMAIN d THEN Append(d[key], path) ELSE <<path>>)
        ELSE d[k]]

\* _get_instance_number: int(getattr(dcm, 'InstanceNumber', 0)), and 0 when
\* that raises.
get_instance_number(raw) == IF raw.t = "int" THEN raw.v ELSE 0

\* An insertion that puts the path before the paths of equal key.
InsertSorted_before(sorted, p, raws) ==
    LET pos == Cardinality({j \in 1..Len(sorted) :
                   get_instance_number(raws[sorted[j]]) < get_instance_number(raws[p])})
    IN  SubSeq(sorted, 1, pos) \o <<p>> \o SubSeq(sorted, pos + 1, Len(sorted))

\* One insertion of the stable sort: p goes behind every path whose key is
\* not greater than its own.
InsertSorted(sorted, p, raws) ==
    LET pos == Cardinality({j \in 1..Len(sorted) :
                   get_instance_number(raws[sorted[j]]) <= get_instance_number(raws[p])})
    IN  SubSeq(sorted, 1, pos) \o <<p>> \o SubSeq(sorted, pos + 1, Len(sorted))

\* files.sort(key=lambda x: self._get_instance_number(x)): list.sort is stable.
RECURSIVE list_sort(_, _)
list_sort(files, raws) ==
    IF files = <<>> THEN <<>>
    ELSE InsertSorted(list_sort(SubSeq(files, 1, Len(files) - 1), raws),
                      files[Len(files)], raws)

\* The paths in the buckets of d.
Bucketed(d) == UNION {{d[k][j] : j \in 1..Len(d[k])} : k \in DOMAIN d}

\* self.queue.put((type, data)) by the load worker of OrgSpec, run 1.
OrgPut(type, data) == queue' = Append(queue, Msg(type, 1, Len(queue) + 1, data))

\* A step of the load worker of OrgSpec leaves the scheduler side alone.
OrgStep ==
    /\ op' = "other"
    /\ UNCHANGED <<should_stop, workers, nextRun, polls, lastBatch, lastRemoved,
                   lastK, termDelivered, total_files, probeVars, scanVars, normVars>>

\* A per-file handler that gives the batch up.
AfterFileError_breaks == "post"

\* `except Exception as e: print(...); continue` inside the loop.
AfterFileError == "head"

\* The state after load_files_async(file_list) was accepted: running set,
\* should_stop clear, the worker at the head of its loop, one poll scheduled.
OrgInit ==
    /\ running = TRUE
    /\ should_stop = FALSE
    /\ queue = <<>>
    /\ workers = [r \in Runs |-> NoWorker]
    /\ nextRun = 1
    /\ polls = 1
    /\ forcePending = 0
    /\ op = "request"
    /\ lastBatch = <<>>
    /\ lastRemoved = 0
    /\ lastK = [r \in Runs |-> 0]
    /\ termDelivered = {}
    /\ load_pc = "head"
    /\ total_files \in 0..MaxOrgFiles
    /\ enum_i = 0
    /\ dcm = <<>>
    /\ series_dict = <<>>
    /\ instance_number = <<>>
    /\ load_end = "none"
    /\ ProbeIdle
    /\ ScanIdle
    /\ NormIdle

\* `for i, file_path in enumerate(file_list): if self.should_stop: break`
ultra_load_head ==
    /\ load_pc = "head"
    /\ load_pc' = IF enum_i = total_files \/ LoopObservesStop(should_stop)
                  THEN "post" ELSE "body"
    /\ OrgStep
    /\ UNCHANGED <<running, queue, forcePending, enum_i, dcm, series_dict,
                   instance_number, load_end>>

\* The outer `except Exception` of the load worker.
ultra_load_except ==
    /\ IF HandlerReports(should_stop) THEN OrgPut("error", {}) ELSE UNCHANGED queue
    /\ load_pc' = AfterExcept
    /\ load_end' = "crashed"

\* The body of the loop for path enum_i + 1 (enumerate index enum_i).
ultra_load_body ==
    /\ load_pc = "body"
    /\ OrgStep
    /\ UNCHANGED <<running, forcePending, instance_number>>
    /\ \/ \* the read and the bucketing succeed
          \E h \in Headers :
             /\ dcm' = Append(dcm, h)
             /\ series_dict' = AddToBucket(series_dict, series_key(h), enum_i + 1)
             /\ IF ReportsProgress(enum_i, total_files)
                THEN OrgPut("progress", [num |-> (enum_i + 1) * 100, den |-> total_files])
                ELSE UNCHANGED queue
             /\ enum_i' = enum_i + 1
             /\ load_pc' = "head"
             /\ UNCHANGED load_end
       \/ \* they raise: print and continue
          /\ dcm' = Append(dcm, NoHeader)
          /\ enum_i' = enum_i + 1
          /\ load_pc' = AfterFileError
          /\ UNCHANGED <<series_dict, queue, load_end>>
       \/ \* the print of the per-file handler raises too
          /\ dcm' = Append(dcm, NoHeader)
          /\ enum_i' = enum_i + 1
          /\ ultra_load_except
          /\ UNCHANGED series_dict

\* After the loop: `if not self.should_stop:` sort every bucket, put
\* 'complete', Clock.schedule_once(_force_complete_check).
ultra_load_post ==
    /\ load_pc = "post"
    /\ OrgStep
    /\ UNCHANGED <<running, enum_i, dcm>>
    /\ IF PostObservesStop(should_stop)
       THEN /\ load_pc' = "exit"
            /\ load_end' = "stopped"
            /\ UNCHANGED <<queue, forcePending, series_dict, instance_number>>
       ELSE \/ \E read \in [Bucketed(series_dict) -> InstanceRaws] :
                 /\ instance_number' =
                        [p \in 1..Len(dcm) |->
                            IF p \in Bucketed(series_dict) THEN read[p] ELSE Absent]
                 /\ series_dict' =
                        [k \in DOMAIN series_dict |->
                            list_sort(series_dict[k], instance_number')]
                 /\ OrgPut("complete", series_dict')
                 /\ forcePending' = forcePending + 1
                 /\ load_pc' = "exit"
                 /\ load_end' = "complete"
            \/ \* the print before the put raises
               /\ ultra_load_except
               /\ UNCHANGED <<forcePending, series_dict, instance_number>>

\* `self.running = False`
ultra_load_exit ==
    /\ load_pc = "exit"
    /\ running' = FALSE
    /\ load_pc' = "done"
    /\ OrgStep
    /\ UNCHANGED <<queue, forcePending, enum_i, dcm, series_dict, instance_number,
                   load_end>>

OrgNext ==
    \/ ultra_load_head
    \/ ultra_load_body
    \/ ultra_load_post
    \/ ultra_load_exit
    \/ stop_loading

OrgSpec == OrgInit /\ [][OrgNext]_vars

(***************************************************************************)
(* The detector.  ProbeSpec applies is_dicom_file_ultrafast to one file.   *)
(* A name or an extension is a sequence of characters; a file is what the  *)
(* calls on its path give: the extension, the size or a failing stat, the  *)
(* outcome of pydicom.dcmread, a failing open, the bytes at offset 128 and *)
(* the first bytes.                                                        *)
(***************************************************************************)

UpperCase == <<"A", "B", "C", "D", "E", "F", "G", "H", "I", "J", "K", "L", "M", "N", "O", "P", "Q", "R", "S", "T", "U", "V", "W", "X", "Y", "Z">>

LowerCase == <<"a", "b", "c", "d", "e", "f", "g", "h", "i", "j", "k", "l", "m", "n", "o", "p", "q", "r", "s", "t", "u", "v", "w", "x", "y", "z">>

\* str.lower() on one character.
LowerChar(c) ==
    IF \E j \in 1..Len(UpperCase) : UpperCase[j] = c
    THEN LowerCase[CHOOSE j \in 1..Len(UpperCase) : UpperCase[j] = c]
    ELSE c

\* str.lower()
lower(s) == [j \in 1..Len(s) |-> LowerChar(s[j])]

\* ['.dcm', '.dicom', '.dic', '.ima']
RecordExts == {<<".", "d", "c", "m">>, <<".", "d", "i", "c", "o", "m">>, <<".", "d", "i", "c">>, <<".", "i", "m", "a">>}

\* `if file_size < 128`
MinSize == 128

\* `if file_size > 500 * 1024 * 1024`
MaxSize == 500 * 1024 * 1024

\* b'DICM'
DICM == <<68, 73, 67, 77>>

\* The (group, element) pairs of the last check.
TagWhitelist ==
    {<<8, e>> : e \in {0, 1, 5, 8, 22, 24}} \cup {<<2, e>> : e \in {0, 1, 2, 3, 16, 18}}

\* A reading of two bytes with the high byte first.
int_from_bytes_big(b) == b[1] * 256 + b[2]

\* int.from_bytes(b, byteorder='little') on two bytes.
int_from_bytes(b) == b[1] + b[2] * 256

\* A size check that lets every size through.
SizeOutOfBounds_never(file_size) == FALSE

\* `if file_size < 128: return False` and `if file_size > 500 * 1024 * 1024: return False`
SizeOutOfBounds(file_size) == file_size < MinSize \/ file_size > MaxSize

\* f.read(16) at offset 0: the bytes there are, 16 at most; head holds the
\* first four of them.
HeaderLen(f) == IF f.size < 16 THEN f.size ELSE 16

\* is_dicom_file_ultrafast(file_path): ret is what it returns, did the checks
\* it made, in order.
is_dicom_file_ultrafast(f) ==
    IF lower(f.ext) \in RecordExts
    THEN [ret |-> TRUE, did |-> <<"ext">>]
    ELSE IF f.stat_fails \/ SizeOutOfBounds(f.size)
    THEN [ret |-> FALSE, did |-> <<"ext", "size">>]
    ELSE IF f.parses
    THEN [ret |-> TRUE, did |-> <<"ext", "size", "parse">>]
    ELSE IF f.open_fails
    THEN [ret |-> FALSE, did |-> <<"ext", "size", "parse">>]
    ELSE IF f.at128 = DICM
    THEN [ret |-> TRUE, did |-> <<"ext", "size", "parse", "magic">>]
    ELSE IF HeaderLen(f) < 8
    THEN [ret |-> FALSE, did |-> <<"ext", "size", "parse", "magic">>]
    ELSE [ret |-> <<int_from_bytes(SubSeq(f.head, 1, 2)),
                    int_from_bytes(SubSeq(f.head, 3, 4))>> \in TagWhitelist,
          did |-> <<"ext", "size", "parse", "magic", "tag">>]

\* The extensions, sizes and contents ProbeSpec draws a file from.
ProbeExts == {<<".", "d", "c", "m">>, <<".", "I", "M", "A">>, <<>>, <<".", "b", "i", "n">>}

ProbeSizes == {0, MinSize - 1, MinSize, MinSize + 1, MaxSize, MaxSize + 1}

ProbeAt128 == {DICM, <<0, 0, 0, 0>>}

ProbeHeads == {<<g0, g1, e0, e1>> : g0 \in {0, 2, 8}, g1 \in {0, 8}, e0 \in {0, 5, 16}, e1 \in {0, 1}}

ProbeFiles ==
    [ext : ProbeExts, size : ProbeSizes, stat_fails : BOOLEAN, parses : BOOLEAN,
     open_fails : BOOLEAN, at128 : ProbeAt128, head : ProbeHeads]

ProbeInit ==
    /\ file_path \in ProbeFiles
    /\ probe = <<>>
    /\ OrgIdle
    /\ ScanIdle
    /\ NormIdle
    /\ running = FALSE
    /\ should_stop = FALSE
    /\ queue = <<>>
    /\ workers = [r \in Runs |-> NoWorker]
    /\ nextRun = 1
    /\ polls = 0
    /\ forcePending = 0
    /\ op = "other"
    /\ lastBatch = <<>>
    /\ lastRemoved = 0
    /\ lastK = [r \in Runs |-> 0]
    /\ termDelivered = {}

\* One call of is_dicom_file_ultrafast.
classify ==
    /\ probe = <<>>
    /\ probe' = is_dicom_file_ultrafast(file_path)
    /\ UNCHANGED <<file_path, orgVars, scanVars, normVars, running, should_stop, queue, workers, nextRun,
                   polls, forcePending, op, lastBatch, lastRemoved, lastK, termDelivered>>

ProbeNext == classify

ProbeSpec == ProbeInit /\ [][ProbeNext]_vars

(***************************************************************************)
(* VideoSpec: is_dicom_video on one file.  The file is given by what each  *)
(* call on it yields: a value, or an exception.                            *)
(***************************************************************************)

\* An attribute whose read raises something else than AttributeError, which
\* getattr with a default lets through.
Raising == [t |-> "raises", v |-> 0]

\* video_syntaxes and video_sop_classes are told apart from every other
\* identifier by membership alone: "video" stands for one of their members.
video_modalities == {"XC", "VL", "ES", "OP", "US"}

\* `if x:` on an attribute value: absent gives the default None, a zero
\* number is false, a text that is no number is a non-empty string.
Truthy(h) == (h.t = "int" /\ h.v # 0) \/ h.t = "str"

\* `frame_count > 10`
ManyFrames == 10

\* A frame-count check that asks for a hint whatever the count.
frame_check_hint_only(f) ==
    IF Truthy(f.frames)
    THEN IF f.frames.t = "str"
         THEN FALSE
         ELSE /\ f.frames.v > 1
              /\ (Truthy(f.frame_time) \/ Truthy(f.frame_increment_pointer))
    ELSE FALSE

\* `if frames:` with its inner try: int(frames) may raise, which is passed
\* over; TRUE when the check returns True.
frame_check(f) ==
    IF Truthy(f.frames)
    THEN IF f.frames.t = "str"
         THEN FALSE
         ELSE /\ f.frames.v > 1
              /\ \/ Truthy(f.frame_time)
                 \/ Truthy(f.frame_increment_pointer)
                 \/ f.frames.v > ManyFrames
    ELSE FALSE

\* `if modality in video_modalities:` with its inner try around the full
\* decode; TRUE when the check returns True.
modality_check(f) ==
    /\ f.modality \in video_modalities
    /\ ~f.decode.raises
    /\ Len(f.decode.shape) >= 3
    /\ f.decode.shape[1] > 1

\* `except Exception: return False` around the whole function.
OnCheckError(f, did, rest) == [ret |-> FALSE, did |-> did]

\* is_dicom_video(file_path): ret is the value returned, did the checks that
\* were begun, in order.
is_dicom_video(f) ==
    LET fromModality ==
            IF f.modality = "unhashable"
            THEN OnCheckError(f, <<"syntax", "sop", "frames", "modality">>,
                              [ret |-> FALSE, did |-> <<"syntax", "sop", "frames", "modality">>])
            ELSE [ret |-> modality_check(f), did |-> <<"syntax", "sop", "frames", "modality">>]
        fromFrames ==
            IF f.frames.t = "raises"
            THEN OnCheckError(f, <<"syntax", "sop", "frames">>, fromModality)
            ELSE IF frame_check(f)
            THEN [ret |-> TRUE, did |-> <<"syntax", "sop", "frames">>]
            ELSE fromModality
        fromSop ==
            IF f.sop = "raises"
            THEN OnCheckError(f, <<"syntax", "sop">>, fromFrames)
            ELSE IF f.sop = "video"
            THEN [ret |-> TRUE, did |-> <<"syntax", "sop">>]
            ELSE fromFrames
    IN  IF ~f.reads
        THEN [ret |-> FALSE, did |-> <<>>]
        ELSE IF f.ts = "raises"
        THEN OnCheckError(f, <<"syntax">>, fromSop)
        ELSE IF f.ts = "video"
        THEN [ret |-> TRUE, did |-> <<"syntax">>]
        ELSE fromSop

\* The files VideoSpec draws from.
VideoFrameCounts ==
    {Absent, NotANumber, Raising, Number(0), Number(1), Number(5), Number(ManyFrames),
     Number(ManyFrames + 1)}

VideoDecodes ==
    {[raises |-> TRUE, shape |-> <<>>], [raises |-> FALSE, shape |-> <<2, 2>>],
     [raises |-> FALSE, shape |-> <<1, 2, 2>>], [raises |-> FALSE, shape |-> <<3, 2, 2>>]}

VideoFiles ==
    [reads : BOOLEAN, ts : {"video", "other", "raises"}, sop : {"video", "other", "raises"},
     frames : VideoFrameCounts, frame_time : {Absent, Number(0), Number(40)},
     frame_increment_pointer : {Absent, Number(1)},
     modality : {"US", "CT", "unhashable"}, decode : VideoDecodes]

VideoInit ==
    /\ file_path \in VideoFiles
    /\ probe = <<>>
    /\ OrgIdle
    /\ ScanIdle
    /\ NormIdle
    /\ running = FALSE
    /\ should_stop = FALSE
    /\ queue = <<>>
    /\ workers = [r \in Runs |-> NoWorker]
    /\ nextRun = 1
    /\ polls = 0
    /\ forcePending = 0
    /\ op = "other"
    /\ lastBatch = <<>>
    /\ lastRemoved = 0
    /\ lastK = [r \in Runs |-> 0]
    /\ termDelivered = {}

\* One call of is_dicom_video.
classify_video ==
    /\ probe = <<>>
    /\ probe' = is_dicom_video(file_path)
    /\ UNCHANGED <<file_path, orgVars, scanVars, normVars, running, should_stop, queue, workers, nextRun,
                   polls, forcePending, op, lastBatch, lastRemoved, lastK, termDelivered>>

VideoNext == classify_video

VideoSpec == VideoInit /\ [][VideoNext]_vars

(***************************************************************************)
(* The scanner.  ScanSpec follows one accepted scanAsync run,              *)
(* _ultra_scan_worker with scan_folder_ultrafast inside it, over a small   *)
(* tree: the root with two subdirectories d1 and d2, and d3 inside d1.     *)
(* A file is its path <<directory, name>> with what the calls on it give.  *)
(***************************************************************************)

SubDirs == {"d1", "d2", "d3"}

\* The subdirectories of each directory, in the order the listing gives them.
Children(d) ==
    CASE d = "root" -> <<"d1", "d2">>
      [] d = "d1" -> <<"d3">>
      [] OTHER -> <<>>

\* skip_dirs
skip_dirs ==
    { <<".", "g", "i", "t">>, <<"_", "_", "p", "y", "c", "a", "c", "h", "e", "_", "_">>, <<"n", "o", "d", "e", "_", "m", "o", "d", "u", "l", "e", "s">>, <<".", "v", "s">>,
      <<"b", "i", "n">>, <<"o", "b", "j">>, <<"t", "e", "m", "p">>, <<"t", "m", "p">>,
      <<"c", "a", "c", "h", "e">>, <<".", "s", "v", "n">>, <<"b", "a", "c", "k", "u", "p">>, <<"l", "o", "g", "s">> }

\* obvious_non_dicom
obvious_non_dicom ==
    { <<".", "t", "x", "t">>, <<".", "l", "o", "g">>, <<".", "x", "m", "l">>, <<".", "h", "t", "m", "l">>,
      <<".", "c", "s", "s">>, <<".", "j", "s">>, <<".", "p", "y">>, <<".", "e", "x", "e">>,
      <<".", "d", "l", "l">>, <<".", "z", "i", "p">>, <<".", "r", "a", "r">>, <<".", "p", "d", "f">>,
      <<".", "d", "o", "c">>, <<".", "d", "o", "c", "x">>, <<".", "x", "l", "s">>, <<".", "x", "l", "s", "x">>,
      <<".", "p", "p", "t">>, <<".", "p", "p", "t", "x">>, <<".", "m", "p", "3">>, <<".", "a", "v", "i">>,
      <<".", "m", "o", "v">>, <<".", "w", "a", "v">>, <<".", "j", "p", "g">>, <<".", "j", "p", "e", "g">>,
      <<".", "p", "n", "g">>, <<".", "g", "i", "f">>, <<".", "b", "m", "p">>, <<".", "t", "i", "f", "f">>,
      <<".", "s", "v", "g">>, <<".", "i", "c", "o">>, <<".", "i", "n", "i">>, <<".", "c", "f", "g">>,
      <<".", "j", "s", "o", "n">> }

\* A pruning that keeps every directory.
Pruned_never(name) == FALSE

\* `d.lower() not in skip_dirs`, negated: the directory is taken off dirs.
Pruned(name) == lower(name) \in skip_dirs

\* os.walk(directory) top-down with `dirs[:] = [d for d in dirs if ...]`: the
\* files of the directory, then each directory left in dirs, walked the same
\* way.  files is what all_files receives, visited the directories listed.
RECURSIVE walk(_, _)
RECURSIVE walk_dirs(_, _, _)
walk(fs, d) ==
    walk_dirs(fs, SelectSeq(Children(d), LAMBDA c : ~Pruned(fs.names[c])),
              [files |-> fs.files[d], visited |-> {d}])

walk_dirs(fs, dirs, acc) ==
    IF dirs = <<>> THEN acc
    ELSE LET below == walk(fs, Head(dirs))
         IN  walk_dirs(fs, Tail(dirs),
                       [files |-> acc.files \o below.files,
                        visited |-> acc.visited \cup below.visited])

\* os.listdir(directory): the files of the root and its subdirectories.
listdir(fs) ==
    fs.files["root"] \o
        [j \in 1..Len(Children("root")) |-> [isfile |-> FALSE, path |-> <<Children("root")[j]>>]]

\* The first part of scan_folder_ultrafast, up to `if not all_files`: the
\* walk or the listing.  raised tells that the try statement ended in its
\* handler: os.listdir raises on a root that cannot be read, os.walk ignores
\* the error of its scandir and yields nothing.
collect(fs, rec) ==
    IF rec
    THEN IF fs.access
         THEN LET w == walk(fs, "root")
              IN  [raised |-> FALSE, files |-> w.files, visited |-> w.visited]
         ELSE [raised |-> FALSE, files |-> <<>>, visited |-> {}]
    ELSE IF fs.access
         THEN [raised |-> FALSE,
               files |-> SelectSeq(listdir(fs), LAMBDA e : e.isfile),
               visited |-> {"root"}]
         ELSE [raised |-> TRUE, files |-> <<>>, visited |-> {}]

\* A front-loading that drops what was collected before.
insert_front_only(list, f) == <<f>>

\* potential_dicom.insert(0, file_path)
insert_front(list, f) == <<f>> \o list

\* A partition that rejects nothing: what is no record file is a candidate.
partition_rejects_nothing(files, acc) ==
    [definitely |-> acc.definitely \o SelectSeq(files, LAMBDA f : lower(f.ext) \in RecordExts),
     potential |-> acc.potential \o SelectSeq(files, LAMBDA f : lower(f.ext) \notin RecordExts)]

\* `for file_path in all_files:` the partition by extension.  f.keyword tells
\* that one of medical_indicators occurs in the lowercased basename.
RECURSIVE partition(_, _)
partition(files, acc) ==
    IF files = <<>> THEN acc
    ELSE LET f == Head(files)
             ext == lower(f.ext)
             next ==
                IF ext \in obvious_non_dicom THEN acc
                ELSE IF ext \in RecordExts
                THEN [acc EXCEPT !.definitely = Append(@, f)]
                ELSE IF ext = <<>> \/ (Len(ext) <= 4 /\ ext \notin obvious_non_dicom)
                THEN IF f.keyword
                     THEN [acc EXCEPT !.potential = insert_front(@, f)]
                     ELSE [acc EXCEPT !.potential = Append(@, f)]
                ELSE acc
         IN  partition(Tail(files), next)

\* batch_size = max(1, len(potential_dicom) // 50)
batch_size(potential) == IF Len(potential) \div 50 > 1 THEN Len(potential) \div 50 ELSE 1

\* `for file_path in batch:` the confirmed files of the batch, in order.
Confirmed(batch) == SelectSeq(batch, LAMBDA f : is_dicom_file_ultrafast(f).ret)

\* A file of the tree: its path and what the calls on it give.
ScanFile(dir, name, ext, keyword, size, parses, at128, head) ==
    [isfile |-> TRUE, path |-> <<dir, name>>, ext |-> ext, keyword |-> keyword,
     size |-> size, stat_fails |-> FALSE, parses |-> parses, open_fails |-> FALSE,
     at128 |-> at128, head |-> head]

\* The files the root may hold, in the order of its listing: a record
\* extension in capitals on an empty file; a text extension on a file that
\* parses; three files without extension, two of them with a keyword in the
\* name, one that parses, one with the magic marker only, one with nothing;
\* a short unknown extension; a long unknown extension.
RootFiles ==
    << ScanFile("root", 1, <<".", "D", "C", "M">>, FALSE, 0, FALSE, <<0, 0, 0, 0>>, <<0, 0, 0, 0>>),
       ScanFile("root", 2, <<".", "t", "x", "t">>, TRUE, 4096, TRUE, DICM, <<8, 0, 5, 0>>),
       ScanFile("root", 3, <<>>, TRUE, 4096, TRUE, <<0, 0, 0, 0>>, <<0, 0, 0, 0>>),
       ScanFile("root", 4, <<>>, FALSE, 4096, FALSE, <<0, 0, 0, 0>>, <<0, 0, 0, 0>>),
       ScanFile("root", 5, <<>>, TRUE, 4096, FALSE, DICM, <<0, 0, 0, 0>>),
       ScanFile("root", 6, <<".", "a", "b", "c">>, FALSE, 4096, TRUE, <<0, 0, 0, 0>>, <<0, 0, 0, 0>>),
       ScanFile("root", 7, <<".", "b", "a", "c", "k", "u", "p">>, FALSE, 4096, TRUE, DICM, <<8, 0, 5, 0>>) >>

\* The file of each subdirectory.
SubFiles ==
    [d \in SubDirs |->
        IF d = "d2"
        THEN <<ScanFile(d, 1, <<>>, TRUE, 4096, TRUE, <<0, 0, 0, 0>>, <<0, 0, 0, 0>>)>>
        ELSE <<ScanFile(d, 1, <<".", "d", "c", "m">>, FALSE, 4096, TRUE, DICM, <<2, 0, 0, 0>>)>>]

\* The names a subdirectory may have.
DirNames == {<<"d", "a", "t", "a">>, <<"t", "m", "p">>, <<"T", "m", "p">>}

\* The trees ScanSpec draws from: a root that can be read, with any choice
\* of the root files and of the names, or a root that cannot.
Trees ==
    {[access |-> TRUE,
      names |-> nm,
      files |-> [d \in SubDirs \cup {"root"} |->
                    IF d = "root"
                    THEN SelectSeq(RootFiles, LAMBDA f : f.path[2] \in pick)
                    ELSE SubFiles[d]]] :
        nm \in [SubDirs -> DirNames], pick \in SUBSET (1..Len(RootFiles))}
    \cup
    {[access |-> FALSE,
      names |-> [d \in SubDirs |-> <<"d", "a", "t", "a">>],
      files |-> [d \in SubDirs \cup {"root"} |-> IF d = "root" THEN <<>> ELSE SubFiles[d]]]}

\* The state after scan_folder_async(folder_path, recursive) was accepted.
ScanInit ==
    /\ directory \in Trees
    /\ recursive \in BOOLEAN
    /\ scan_pc = "walk"
    /\ all_files = <<>>
    /\ definitely_dicom = <<>>
    /\ potential_dicom = <<>>
    /\ dicom_files = <<>>
    /\ batch_i = 0
    /\ scan_processed = 0
    /\ calls = <<>>
    /\ probed = {}
    /\ visited = {}
    /\ OrgIdle
    /\ ProbeIdle
    /\ NormIdle
    /\ running = TRUE
    /\ should_stop = FALSE
    /\ queue = <<>>
    /\ workers = [r \in Runs |-> NoWorker]
    /\ nextRun = 1
    /\ polls = 1
    /\ forcePending = 0
    /\ op = "request"
    /\ lastBatch = <<>>
    /\ lastRemoved = 0
    /\ lastK = [r \in Runs |-> 0]
    /\ termDelivered = {}

\* A step of the scan worker of ScanSpec leaves the scheduler side alone.
ScanStep ==
    /\ op' = "other"
    /\ UNCHANGED <<should_stop, workers, nextRun, polls, forcePending, lastBatch,
                   lastRemoved, lastK, termDelivered, orgVars, probeVars, normVars,
                   directory, recursive>>

\* progress_callback(percent, status) as _ultra_scan_worker passes it:
\* progress_update, which puts a 'progress' unless should_stop is set.
ScanCallback(percent) ==
    /\ calls' = Append(calls, percent)
    /\ IF should_stop THEN UNCHANGED queue
       ELSE queue' = Append(queue, Msg("progress", 1, Len(queue) + 1, percent))

\* scan_folder_ultrafast up to its batch loop.
ultra_scan_walk ==
    /\ scan_pc = "walk"
    /\ ScanStep
    /\ UNCHANGED <<running, batch_i, probed>>
    /\ LET c == collect(directory, recursive)
           parts == partition(c.files, [definitely |-> <<>>, potential |-> <<>>])
       IN  /\ all_files' = c.files
           /\ visited' = c.visited
           /\ IF c.raised
              THEN \* progress_callback(0, f"Error accessing directory: {e}"); return []
                   /\ ScanCallback(<<0, 1>>)
                   /\ scan_pc' = "post"
                   /\ UNCHANGED <<definitely_dicom, potential_dicom, dicom_files, scan_processed>>
              ELSE IF c.files = <<>>
              THEN \* `if not all_files: return []`
                   /\ scan_pc' = "post"
                   /\ UNCHANGED <<definitely_dicom, potential_dicom, dicom_files,
                                  scan_processed, calls, queue>>
              ELSE /\ definitely_dicom' = parts.definitely
                   /\ potential_dicom' = parts.potential
                   /\ ScanCallback(<<5, 1>>)
                   /\ dicom_files' = parts.definitely
                   /\ scan_processed' = Len(parts.definitely)
                   /\ scan_pc' = "batch"

\* One turn of `for i in range(0, len(potential_dicom), batch_size)`, or the
\* `return dicom_files` behind the loop.  The percent reported is
\* (processed / total_candidates) * 95 + 5, kept as <<numerator, denominator>>.
ultra_scan_batch ==
    /\ scan_pc = "batch"
    /\ ScanStep
    /\ UNCHANGED <<running, all_files, definitely_dicom, potential_dicom, visited>>
    /\ IF batch_i < Len(potential_dicom)
       THEN LET size == batch_size(potential_dicom)
                last == IF batch_i + size < Len(potential_dicom)
                        THEN batch_i + size ELSE Len(potential_dicom)
                batch == SubSeq(potential_dicom, batch_i + 1, last)
                total_candidates == Len(definitely_dicom) + Len(potential_dicom)
            IN  /\ dicom_files' = dicom_files \o Confirmed(batch)
                /\ probed' = probed \cup {batch[j] : j \in 1..Len(batch)}
                /\ scan_processed' = scan_processed + Len(batch)
                /\ ScanCallback(<<scan_processed' * 95 + 5 * total_candidates, total_candidates>>)
                /\ batch_i' = batch_i + size
                /\ UNCHANGED scan_pc
       ELSE /\ scan_pc' = "post"
            /\ UNCHANGED <<dicom_files, probed, scan_processed, calls, queue, batch_i>>

\* `if not self.should_stop: self.queue.put(('scan_complete', dicom_files))`
ultra_scan_post ==
    /\ scan_pc = "post"
    /\ ScanStep
    /\ UNCHANGED <<running, all_files, definitely_dicom, potential_dicom, dicom_files,
                   batch_i, scan_processed, calls, probed, visited>>
    /\ IF should_stop
       THEN scan_pc' = "exit" /\ UNCHANGED queue
       ELSE /\ queue' = Append(queue, Msg("scan_complete", 1, Len(queue) + 1, dicom_files))
            /\ scan_pc' = "final"

\* self.queue.put(('progress', 100, ...)) inside the same `if`.
ultra_scan_final ==
    /\ scan_pc = "final"
    /\ ScanStep
    /\ UNCHANGED <<running, all_files, definitely_dicom, potential_dicom, dicom_files,
                   batch_i, scan_processed, calls, probed, visited>>
    /\ queue' = Append(queue, Msg("progress", 1, Len(queue) + 1, <<100, 1>>))
    /\ scan_pc' = "exit"

\* `self.running = False`
ultra_scan_exit ==
    /\ scan_pc = "exit"
    /\ ScanStep
    /\ running' = FALSE
    /\ scan_pc' = "done"
    /\ UNCHANGED <<queue, all_files, definitely_dicom, potential_dicom, dicom_files,
                   batch_i, scan_processed, calls, probed, visited>>

ScanNext ==
    \/ ultra_scan_walk
    \/ ultra_scan_batch
    \/ ultra_scan_post
    \/ ultra_scan_final
    \/ ultra_scan_exit
    \/ stop_loading

ScanSpec == ScanInit /\ [][ScanNext]_vars

(***************************************************************************)
(* The normalization.  NormSpec applies the normalization of               *)
(* show_image_item (one image, inside a try statement) and of              *)
(* load_video_file (every frame of a stack, no try statement around the    *)
(* window arithmetic) to one decoded buffer.  A frame is the sequence of   *)
(* its samples; its length stands for its shape.                           *)
(***************************************************************************)

MaxFrames == 2       \* frames of pixel_array
FrameSize == 2       \* samples of a frame

\* A window hint that is a list: the code takes its first element.
ListOf(n) == [t |-> "list", v |-> n]

\* np.min(frame)
FrameMin(frame) ==
    CHOOSE x \in {frame[j] : j \in 1..Len(frame)} : \A j \in 1..Len(frame) : x <= frame[j]

\* np.max(frame)
FrameMax(frame) ==
    CHOOSE x \in {frame[j] : j \in 1..Len(frame)} : \A j \in 1..Len(frame) : x >= frame[j]

\* np.clip(v, lo, hi) on one sample: minimum(maximum(v, lo), hi)
clip(v, lo, hi) ==
    LET m == IF v < lo THEN lo ELSE v IN IF m > hi THEN hi ELSE m

\* ((frame - lo) / (hi - lo) * 255).astype(np.uint8) for lo <= frame <= hi,
\* lo < hi: the truncation of the quotient.
rescale(frame, lo, hi) ==
    [j \in 1..Len(frame) |-> ((frame[j] - lo) * 255) \div (hi - lo)]

\* A fill that hands the buffer back as it is.
full_like_same(frame, value) == frame

\* np.full_like(frame, value, dtype=np.uint8)
full_like(frame, value) == [j \in 1..Len(frame) |-> value]

\* What the cast of a sample that is no number (0/0) to uint8 may give.
UndefinedSamples == {0, 255}

\* The normalization of one frame: the results it may have.  out is the
\* frame produced, div the divisors of the divisions made, raised tells that
\* an exception left the code.  guarded is TRUE for show_image_item, whose
\* window arithmetic stands in a try statement with the min-max stretch in
\* its handler, FALSE for load_video_file.
normalize(frame, dtype, wc, ww, guarded) ==
    IF dtype = "uint8"
    THEN {[out |-> frame, div |-> <<>>, raised |-> FALSE]}
    ELSE LET lo == FrameMin(frame)
             hi == FrameMax(frame)
         IN  IF hi > lo
             THEN IF wc.t # "absent" /\ ww.t # "absent"
                  THEN IF wc.t = "str" \/ ww.t = "str"
                       THEN \* the arithmetic on the hints raises
                            IF guarded
                            THEN {[out |-> rescale(frame, lo, hi), div |-> <<hi - lo>>,
                                   raised |-> FALSE]}
                            ELSE {[out |-> <<>>, div |-> <<>>, raised |-> TRUE]}
                       ELSE LET img_min == wc.v - (ww.v \div 2)
                                img_max == wc.v + (ww.v \div 2)
                                clipped == [j \in 1..Len(frame) |->
                                               clip(frame[j], img_min, img_max)]
                            IN  IF img_max = img_min
                                THEN \* 0/0 in every sample, then the cast
                                     {[out |-> o, div |-> <<0>>, raised |-> FALSE] :
                                         o \in [1..Len(frame) -> UndefinedSamples]}
                                ELSE {[out |-> rescale(clipped, img_min, img_max),
                                       div |-> <<img_max - img_min>>, raised |-> FALSE]}
                  ELSE {[out |-> rescale(frame, lo, hi), div |-> <<hi - lo>>,
                         raised |-> FALSE]}
             ELSE {[out |-> full_like(frame, 128), div |-> <<>>, raised |-> FALSE]}

\* The samples a buffer of each dtype is drawn from.
SamplesOf(dtype) == IF dtype = "uint8" THEN {0, 7, 200} ELSE {0 - 100, 7, 300}

\* The buffers NormSpec draws from.
PixelArrays ==
    UNION {{[dtype |-> dt, frames |-> fr] :
               fr \in UNION {[1..n -> [1..FrameSize -> SamplesOf(dt)]] : n \in 1..MaxFrames}} :
           dt \in {"uint8", "int16"}}

\* The window hints NormSpec draws from.
WindowCenters == {Absent, Number(6), Number(7), ListOf(7), NotANumber}

WindowWidths == {Absent, Number(0), Number(5), Number(10), ListOf(10), NotANumber}

NormInit ==
    /\ pixel_array \in PixelArrays
    /\ window_center \in WindowCenters
    /\ window_width \in WindowWidths
    /\ norm_pc = "start"
    /\ img = <<>>
    /\ video_frames = <<>>
    /\ norm_error = FALSE
    /\ OrgIdle
    /\ ProbeIdle
    /\ ScanIdle
    /\ running = FALSE
    /\ should_stop = FALSE
    /\ queue = <<>>
    /\ workers = [r \in Runs |-> NoWorker]
    /\ nextRun = 1
    /\ polls = 0
    /\ forcePending = 0
    /\ op = "other"
    /\ lastBatch = <<>>
    /\ lastRemoved = 0
    /\ lastK = [r \in Runs |-> 0]
    /\ termDelivered = {}

\* A step of the normalization leaves everything else alone.
NormStep ==
    UNCHANGED <<pixel_array, window_center, window_width, orgVars, probeVars, scanVars,
                running, should_stop, queue, workers, nextRun, polls, forcePending, op,
                lastBatch, lastRemoved, lastK, termDelivered>>

\* The normalization of show_image_item: of pixel_array itself, or of its
\* first frame when it is a stack.
show_image_item ==
    /\ norm_pc = "start"
    /\ NormStep
    /\ \E res \in normalize(pixel_array.frames[1], pixel_array.dtype,
                            window_center, window_width, TRUE) :
          /\ img' = res
          /\ norm_error' = res.raised
    /\ norm_pc' = "done"
    /\ UNCHANGED video_frames

\* One turn of `for i in range(self.total_frames)` of load_video_file, or
\* the end of the loop.
load_video_file ==
    /\ norm_pc \in {"start", "video"}
    /\ NormStep
    /\ UNCHANGED img
    /\ IF Len(video_frames) < Len(pixel_array.frames)
       THEN \E res \in normalize(pixel_array.frames[Len(video_frames) + 1], pixel_array.dtype,
                                 window_center, window_width, FALSE) :
               IF res.raised
               THEN /\ norm_error' = TRUE
                    /\ norm_pc' = "done"
                    /\ UNCHANGED video_frames
               ELSE /\ video_frames' = Append(video_frames, res)
                    /\ norm_pc' = "video"
                    /\ UNCHANGED norm_error
       ELSE /\ norm_pc' = "done"
            /\ UNCHANGED <<video_frames, norm_error>>

NormNext ==
    \/ show_image_item
    \/ load_video_file

NormSpec == NormInit /\ [][NormNext]_vars

(***************************************************************************)
(* Properties of the pipeline.                                             *)
(***************************************************************************)

LoadRuns == {r \in Runs : workers[r].kind = "load"}

ScanRuns == {r \in Runs : workers[r].kind = "scan"}

\* A worker that has finished its try statement and has only
\* `self.running = False` left to do.
Finished(r) == workers[r].pc = "exit"

\* C1: at most one background worker (scan or load) of the pipeline is active
\* at any time, whatever the interleaving of requests, stop and worker exit.
C1_AtMostOneWorker == Cardinality(ActiveRuns) <= 1

\* A request has just been turned away by a second worker that is under way.
C1_Witness ==
    /\ op = "request"
    /\ nextRun > 2
    /\ \E r \in ActiveRuns : workers[r].k > 0

\* C2: a scanAsync or loadAsync issued while running is set changes nothing:
\* no worker, no poll, no message, both flags and the in-flight worker's
\* results as they were.
C2_RejectedRequestIsNoOp ==
    [][(running /\ op' = "request") =>
          /\ workers' = workers
          /\ nextRun' = nextRun
          /\ polls' = polls
          /\ forcePending' = forcePending
          /\ queue' = queue
          /\ running' = running
          /\ should_stop' = should_stop]_vars

\* A request made while a load worker is in the middle of an extraction, with
\* results bucketed and messages queued.
C2_Witness ==
    /\ op = "request"
    /\ running
    /\ queue # <<>>
    /\ \E r \in LoadRuns : workers[r].pc = "load_extract" /\ workers[r].bucketed # {}

\* C3: once the worker has terminated - having completed, having seen the
\* cancellation or after a worker-level exception - running is clear, and the
\* next scanAsync or loadAsync spawns a worker.
C3_TerminationFreesPipeline ==
    /\ [](ActiveRuns = {} => ~running)
    /\ [][(ActiveRuns = {} /\ op' = "request") =>
             (running' /\ Cardinality(ActiveRuns') = 1)]_vars

\* A request accepted after the worker before it ended in its exception
\* handler: that worker's 'error' is still queued.
C3_Witness ==
    /\ op = "request"
    /\ nextRun = 3
    /\ Active(workers[2])
    /\ \E j \in 1..Len(queue) : queue[j].run = 1 /\ queue[j].type = "error"

\* C4: while should_stop is set the load worker begins no further extraction
\* (the one in hand may finish), and the bucketed paths lie within the prefix
\* of the list whose extraction has begun.
C4_NoExtractionAfterStop ==
    /\ [](\A r \in LoadRuns : workers[r].bucketed \subseteq 1..workers[r].i)
    /\ [][\A r \in LoadRuns :
             (should_stop /\ workers'[r].kind = "load") => workers'[r].i = workers[r].i]_vars

\* The loop has ended on the flag with paths left over, and the extraction
\* that was in hand has been bucketed.
C4_Witness ==
    \E r \in LoadRuns :
        /\ should_stop
        /\ workers[r].pc = "load_post"
        /\ workers[r].i < workers[r].n
        /\ workers[r].i \in workers[r].bucketed

\* C5 (as claimed): while should_stop is set during a scan the scanner begins
\* no further probe batch.
C5_NoBatchAfterStop ==
    [][\A r \in ScanRuns :
          (should_stop /\ workers'[r].kind = "scan") =>
              workers'[r].batches = workers[r].batches]_vars

AfterTerminal(batch, j, before) ==
    \/ batch[j].run \in before
    \/ \E j2 \in 1..(j - 1) : batch[j2].run = batch[j].run /\ batch[j2].type \in Terminal

\* C7 (as claimed): once a run's terminal message has reached the callback no
\* further message of that run reaches it, and the drain that delivered the
\* terminal message leaves no polling scheduled.
C7_NothingAfterTerminal ==
    [][/\ \A j \in 1..Len(lastBatch') : ~AfterTerminal(lastBatch', j, termDelivered)
       /\ (TerminalRuns(lastBatch') # {} => polls' = 0)]_vars

\* C8 (as claimed): no drain invocation takes more than 10 messages off the queue.
C8_DrainBounded == lastRemoved <= DrainLimit

\* C9: the callback sees the messages of one worker in the order of their
\* appends: each one delivered has a higher append number than the one of the
\* same run delivered before it, in this drain or in an earlier one.
C9_FifoPerWorker ==
    [][\A j \in 1..Len(lastBatch') :
          LET m == lastBatch'[j]
              earlier == {j2 \in 1..(j - 1) : lastBatch'[j2].run = m.run}
          IN  IF earlier = {}
              THEN m.k > lastK[m.run]
              ELSE \A j2 \in earlier : m.k > lastBatch'[j2].k]_vars

\* A drain that delivers several messages of a run of which an earlier drain
\* delivered the first ones, while the worker has appended more since.
C9_Witness ==
    /\ Len(lastBatch) >= 2
    /\ lastBatch[1].k > 1
    /\ lastBatch[2].run = lastBatch[1].run
    /\ \E j \in 1..Len(queue) : queue[j].run = lastBatch[1].run

Successes == {p \in 1..Len(dcm) : dcm[p].ok}

\* The payloads of the 'complete' messages in the queue.
CompletePayloads ==
    {queue[j].data : j \in {j2 \in 1..Len(queue) : queue[j2].type = "complete"}}

\* The places <<key, position>> of the bucket lists of d.
Places(d) == UNION {{<<k, j>> : j \in 1..Len(d[k])} : k \in DOMAIN d}

\* C11: a path whose metadata extraction fails is in no bucket and brings no
\* 'error' message, the paths after it are still processed, and the payload of
\* 'complete' holds exactly the paths whose extraction succeeded.
C11_FailedPathSkipped ==
    /\ \A p \in 1..Len(dcm) : ~dcm[p].ok => p \notin Bucketed(series_dict)
    /\ load_end # "crashed" => \A j \in 1..Len(queue) : queue[j].type # "error"
    /\ load_end = "complete" =>
          /\ Len(dcm) = total_files
          /\ CompletePayloads # {}
          /\ \A d \in CompletePayloads : Bucketed(d) = Successes

\* A completed run of three paths of which the second failed and the third,
\* after it, was bucketed.
C11_Witness ==
    /\ load_end = "complete"
    /\ total_files = 3
    /\ Successes = {1, 3}
    /\ \E d \in CompletePayloads : Bucketed(d) = {1, 3}

\* C12: in the payload of 'complete' every successfully extracted path stands
\* at exactly one place, in the bucket of its own series key; no bucket holds
\* a path of another key; the bucket sizes add up to the number of successes,
\* and there are as many buckets as distinct keys among the successes.
C12_OneBucketPerPath ==
    load_end = "complete" =>
        \A d \in CompletePayloads :
            /\ \A p \in Successes :
                  /\ Cardinality({pl \in Places(d) : d[pl[1]][pl[2]] = p}) = 1
                  /\ \E j \in 1..Len(d[series_key(dcm[p])]) : d[series_key(dcm[p])][j] = p
            /\ \A pl \in Places(d) : series_key(dcm[d[pl[1]][pl[2]]]) = pl[1]
            /\ Cardinality(Places(d)) = Cardinality(Successes)
            /\ Cardinality(DOMAIN d) = Cardinality({series_key(dcm[p]) : p \in Successes})

\* Three paths over two keys, the keys interleaved: two buckets, of sizes 2 and 1.
C12_Witness ==
    /\ load_end = "complete"
    /\ Successes = {1, 2, 3}
    /\ series_key(dcm[1]) = series_key(dcm[3])
    /\ series_key(dcm[1]) # series_key(dcm[2])
    /\ \E d \in CompletePayloads :
          Cardinality(DOMAIN d) = 2 /\ Len(d[series_key(dcm[1])]) = 2

\* Paths p and q stand in one bucket of d.
SameBucket(d, p, q) ==
    \E k \in DOMAIN d :
        /\ \E j \in 1..Len(d[k]) : d[k][j] = p
        /\ \E j \in 1..Len(d[k]) : d[k][j] = q

\* The series number as the key takes it: the integer, 0 when it is absent or
\* no number.
NumberOrZero(h) == IF h.series_number.t = "int" THEN h.series_number.v ELSE 0

\* C13 (as claimed): two successfully extracted records are in the same bucket
\* if and only if they agree on series number, series description, modality
\* and video flag.
C13_SameBucketIffSameAttributes ==
    load_end = "complete" =>
        \A d \in CompletePayloads : \A p \in Successes, q \in Successes :
            SameBucket(d, p, q) <=>
                /\ dcm[p].series_number = dcm[q].series_number
                /\ dcm[p].series_desc = dcm[q].series_desc
                /\ dcm[p].modality = dcm[q].modality
                /\ dcm[p].is_video = dcm[q].is_video

\* C13 (amended): two successfully extracted records are in the same bucket if
\* and only if they agree on the series number taken as an integer (0 when
\* absent or no number), on the text "description (modality", on the video
\* flag and, both being videos, on the frame count.
C13_SameBucketIffSameLabel ==
    load_end = "complete" =>
        \A d \in CompletePayloads : \A p \in Successes, q \in Successes :
            SameBucket(d, p, q) <=>
                /\ NumberOrZero(dcm[p]) = NumberOrZero(dcm[q])
                /\ dcm[p].series_desc \o <<" (">> \o dcm[p].modality
                      = dcm[q].series_desc \o <<" (">> \o dcm[q].modality
                /\ dcm[p].is_video = dcm[q].is_video
                /\ dcm[p].is_video => dcm[p].frames = dcm[q].frames

\* Two videos that agree on series number, description and modality but not
\* on the frame count, in two buckets, and beside them a record without a
\* series number.
C13_Witness ==
    /\ load_end = "complete"
    /\ Successes = {1, 2, 3}
    /\ dcm[1].is_video /\ dcm[2].is_video /\ dcm[1].frames # dcm[2].frames
    /\ dcm[1].series_number = dcm[2].series_number
    /\ dcm[1].series_desc = dcm[2].series_desc
    /\ dcm[1].modality = dcm[2].modality
    /\ dcm[3].series_number = Absent
    /\ \E d \in CompletePayloads : ~SameBucket(d, 1, 2)

\* The instance number of a path as the order takes it.
InstanceOrZero(p) ==
    IF instance_number[p].t = "int" THEN instance_number[p].v ELSE 0

\* C14: in the payload of 'complete' every bucket's list is in ascending order
\* of instance number, an absent or unparsable one counting as 0, and paths of
\* equal instance number stand in the order of the input list.
C14_BucketsSortedStable ==
    load_end = "complete" =>
        \A d \in CompletePayloads : \A k \in DOMAIN d :
            \A a \in 1..Len(d[k]), b \in 1..Len(d[k]) :
                a < b =>
                    /\ InstanceOrZero(d[k][a]) <= InstanceOrZero(d[k][b])
                    /\ InstanceOrZero(d[k][a]) = InstanceOrZero(d[k][b]) => d[k][a] < d[k][b]

\* A bucket of three: the last path of the input list has a negative instance
\* number and comes first, the two before it have none and an unparsable one
\* and keep their order behind it.
C14_Witness ==
    /\ load_end = "complete"
    /\ instance_number = <<Absent, NotANumber, Number(0 - 1)>>
    /\ \E d \in CompletePayloads : \E k \in DOMAIN d : d[k] = <<3, 1, 2>>

(***************************************************************************)
(* Properties of the detector (ProbeSpec).                                 *)
(***************************************************************************)

\* The call has returned.
Classified == probe # <<>>

\* The extension is one of the record extensions, whatever its case.
Whitelisted(f) == lower(f.ext) \in RecordExts

\* The size lies within [128 bytes, 500 MiB].
SizeWithin(f) == 128 <= f.size /\ f.size <= 524288000

\* The first (group, element) pair of the file, two little-endian 16-bit numbers.
TagOf(f) == <<f.head[1] + 256 * f.head[2], f.head[3] + 256 * f.head[4]>>

\* C18 (as claimed): every file under 128 bytes or over 500 MiB is classified
\* false, whatever it holds.
C18_OutOfBoundsRejected ==
    (Classified /\ ~SizeWithin(file_path)) => ~probe.ret

\* C18 (amended): every file under 128 bytes or over 500 MiB whose extension
\* is not a record extension is classified false, and nothing of its content
\* is looked at.
C18_OutOfBoundsRejectedUnlessWhitelisted ==
    (Classified /\ ~SizeWithin(file_path) /\ ~Whitelisted(file_path)) =>
        /\ ~probe.ret
        /\ probe.did = <<"ext", "size">>

\* A file of 127 bytes without a record extension that would parse and that
\* carries the magic marker: classified false.
C18_Witness ==
    /\ Classified
    /\ file_path.size = 127
    /\ file_path.ext = <<>>
    /\ ~file_path.stat_fails
    /\ file_path.parses
    /\ file_path.at128 = DICM
    /\ ~probe.ret

\* C19: the checks are made in the order extension, size, parse, magic, tag,
\* and the call returns at the first that decides: a record extension gives
\* true with no parse; otherwise a failing stat or a size out of bounds gives
\* false; otherwise the result is true iff the parse succeeds or the magic
\* matches or the tag pair is whitelisted, a failing open giving false.
C19_DecisionOrder ==
    Classified =>
        LET f == file_path
            order == <<"ext", "size", "parse", "magic", "tag">>
            n == Len(probe.did)
        IN  /\ n \in 1..5 /\ probe.did = SubSeq(order, 1, n)
            /\ Whitelisted(f) => (probe.ret /\ n = 1)
            /\ (~Whitelisted(f) /\ (f.stat_fails \/ ~SizeWithin(f))) => (~probe.ret /\ n = 2)
            /\ (~Whitelisted(f) /\ ~f.stat_fails /\ SizeWithin(f)) =>
                  /\ n >= 3
                  /\ f.parses => (probe.ret /\ n = 3)
                  /\ (~f.parses /\ f.open_fails) => (~probe.ret /\ n = 3)
                  /\ (~f.parses /\ ~f.open_fails) =>
                        /\ probe.ret <=> (f.at128 = DICM \/ TagOf(f) \in TagWhitelist)
                        /\ n = (IF f.at128 = DICM THEN 4 ELSE 5)

\* A file of exactly 500 MiB without a record extension that does not parse
\* and has no magic marker, decided true by its first tag pair (0008,0005).
C19_Witness ==
    /\ Classified
    /\ file_path.size = 524288000
    /\ file_path.ext = <<".", "b", "i", "n">>
    /\ ~file_path.stat_fails /\ ~file_path.parses /\ ~file_path.open_fails
    /\ file_path.at128 # DICM
    /\ file_path.head = <<8, 0, 5, 0>>
    /\ probe.ret
    /\ probe.did = <<"ext", "size", "parse", "magic", "tag">>

(***************************************************************************)
(* Properties of the scanner (ScanSpec).                                   *)
(***************************************************************************)

\* scan_folder_ultrafast has returned.
Returned == scan_pc \in {"post", "final", "exit", "done"}

\* The elements of a list.
Elements(list) == {list[j] : j \in 1..Len(list)}

\* C15 (as claimed): on a root that cannot be accessed the scan invokes the
\* progress callback once, with percent 0, and returns an empty list; the run,
\* not being cancelled, ends with one 'scan_complete' carrying the empty list
\* and with no 'error'.
C15_InaccessibleRootReported ==
    (~directory.access /\ Returned) =>
        /\ calls = << <<0, 1>> >>
        /\ dicom_files = <<>>
        /\ (scan_pc = "done" /\ ~should_stop) =>
              /\ \A j \in 1..Len(queue) : queue[j].type # "error"
              /\ \E j \in 1..Len(queue) :
                    /\ queue[j].type = "scan_complete" /\ queue[j].data = <<>>
                    /\ \A j2 \in 1..Len(queue) : queue[j2].type = "scan_complete" => j2 = j

\* The directory above a subdirectory.
Parent(d) == IF d = "d3" THEN "d1" ELSE "root"

\* The name is on the skip-list, in whatever case it is written.
OnSkipList(name) == lower(name) \in skip_dirs

\* The root, or a subdirectory with no skip-listed name on the way to it.
RECURSIVE Open(_)
Open(d) == d = "root" \/ (~OnSkipList(directory.names[d]) /\ Open(Parent(d)))

\* C16: a scan with recursive=false lists the root alone and returns and
\* probes only files directly in it; a scan with recursive=true lists every
\* subdirectory that is not skip-listed nor below a skip-listed one, collects
\* their files, and neither lists nor collects from a skip-listed directory
\* or anything below it.
C16_WalkRespectsFlagAndSkipList ==
    (Returned /\ directory.access) =>
        LET seen == Elements(all_files) \cup Elements(dicom_files) \cup probed IN
        IF recursive
        THEN /\ visited = {d \in SubDirs \cup {"root"} : Open(d)}
             /\ \A f \in seen : Open(f.path[1])
             /\ \A d \in SubDirs \cup {"root"} :
                   Open(d) => Elements(directory.files[d]) \subseteq Elements(all_files)
        ELSE /\ visited = {"root"}
             /\ \A f \in seen : f.path[1] = "root"
             /\ Elements(all_files) = Elements(directory.files["root"])

\* A recursive scan over a tree in which d1 is called Tmp and d3, inside it,
\* data: neither is listed, d2 is, and its file is returned.
C16_Witness ==
    /\ scan_pc = "done"
    /\ recursive
    /\ directory.access
    /\ directory.names["d1"] = <<"T", "m", "p">>
    /\ directory.names["d3"] = <<"d", "a", "t", "a">>
    /\ visited = {"root", "d2"}
    /\ \E j \in 1..Len(dicom_files) : dicom_files[j].path[1] = "d2"

Certain(f) == lower(f.ext) \in RecordExts

Blacklisted(f) == lower(f.ext) \in obvious_non_dicom

\* Extensionless or with a short unknown extension.
Candidate(f) == ~Certain(f) /\ ~Blacklisted(f) /\ Len(f.ext) <= 4

\* C17: the scan returns the walked files with a record extension, none of
\* them handed to the detector, followed by the candidates the detector
\* classified true; no blacklisted file, no file that was not walked and no
\* file twice; which candidates carry a keyword bears on the order alone.
C17_ResultIsCertainThenConfirmed ==
    Returned =>
        LET walked == Elements(all_files)
            nCertain == Cardinality({f \in walked : Certain(f)})
        IN  /\ Elements(dicom_files) =
                  {f \in walked : Certain(f) \/ (Candidate(f) /\ is_dicom_file_ultrafast(f).ret)}
            /\ Len(dicom_files) = Cardinality(Elements(dicom_files))
            /\ \A j \in 1..Len(dicom_files) : Certain(dicom_files[j]) <=> j <= nCertain
            /\ \A j \in 1..Len(dicom_files) : ~Blacklisted(dicom_files[j])
            /\ probed = {f \in walked : Candidate(f)}

\* A scan of the root with all its seven files: the record file first, then
\* the keyword candidate listed last before the one listed first, then the
\* short-extension one; the candidate that fails every check, the text file
\* and the long-extension file are left out.
C17_Witness ==
    /\ scan_pc = "done"
    /\ ~recursive
    /\ Len(all_files) = 7
    /\ [j \in 1..Len(dicom_files) |-> dicom_files[j].path[2]] = <<1, 5, 3, 6>>
    /\ Cardinality(probed) = 4

(***************************************************************************)
(* Properties of the normalization (NormSpec).                             *)
(***************************************************************************)

\* The frames normalized so far, each with the result it gave: the first
\* frame with img, frame j with video_frames[j].
Normalized ==
    (IF img # <<>> THEN {[frame |-> pixel_array.frames[1], res |-> img]} ELSE {})
        \cup {[frame |-> pixel_array.frames[j], res |-> video_frames[j]] :
                 j \in 1..Len(video_frames)}

\* Every sample of the frame has the same value.
Constant(frame) == \A j \in 1..Len(frame) : frame[j] = frame[1]

\* C20 (as claimed): a constant buffer of any value is normalized to a buffer
\* of the same shape whose every sample is 128, without a division.
C20_ConstantToMidGray ==
    \A n \in Normalized :
        Constant(n.frame) =>
            /\ Len(n.res.out) = Len(n.frame)
            /\ \A j \in 1..Len(n.res.out) : n.res.out[j] = 128
            /\ n.res.div = <<>>

\* C20 (amended): a constant buffer that is not 8-bit unsigned is normalized
\* to a buffer of the same shape whose every sample is 128, with or without
\* window hints and without a division or an error; a buffer that is 8-bit
\* unsigned, constant or not, is returned as it is.
C20_ConstantToMidGrayUnlessEightBit ==
    \A n \in Normalized :
        /\ (Constant(n.frame) /\ pixel_array.dtype # "uint8") =>
              /\ Len(n.res.out) = Len(n.frame)
              /\ \A j \in 1..Len(n.res.out) : n.res.out[j] = 128
              /\ n.res.div = <<>>
              /\ ~n.res.raised
        /\ pixel_array.dtype = "uint8" => (n.res.out = n.frame /\ n.res.div = <<>>)

\* A 16-bit stack whose second frame is constant at 300, with both window
\* hints present and a width of 0: the frame comes out as 128, 128.
C20_Witness ==
    /\ norm_pc = "done"
    /\ pixel_array.dtype = "int16"
    /\ window_center = Number(7)
    /\ window_width = Number(0)
    /\ Len(video_frames) = 2
    /\ pixel_array.frames[2] = <<300, 300>>
    /\ video_frames[2].out = <<128, 128>>

\* Both window hints are present and are numbers, or lists of numbers.
Windowed == window_center.t \in {"int", "list"} /\ window_width.t \in {"int", "list"}

\* The frames normalized so far that are not constant, of a buffer that is
\* not 8-bit unsigned.
Stretched ==
    {n \in Normalized : ~Constant(n.frame) /\ pixel_array.dtype # "uint8" /\ ~n.res.raised}

\* The truncation of (clip(v, c - w/2, c + w/2) - (c - w/2)) / w * 255 for
\* w > 0, computed on the doubled values so that w/2 stays exact.
WindowValue(v, c, w) ==
    ((clip(2 * v, (2 * c) - w, (2 * c) + w) - ((2 * c) - w)) * 255) \div (2 * w)

\* C21: with both window hints present (center c, width w > 0) and a buffer
\* that is neither constant nor 8-bit unsigned, every sample v is mapped to
\* the truncation of (clip(v, c - w/2, c + w/2) - (c - w/2)) / w * 255, a
\* value of 0..255.
C21_WindowMapping ==
    (Windowed /\ window_width.v > 0) =>
        \A n \in Stretched :
            /\ Len(n.res.out) = Len(n.frame)
            /\ \A j \in 1..Len(n.frame) :
                  /\ n.res.out[j] = WindowValue(n.frame[j], window_center.v, window_width.v)
                  /\ n.res.out[j] \in 0..255

\* The min-max stretch of a frame: its minimum to 0, its maximum to 255.
MinMaxStretch(frame) == rescale(frame, FrameMin(frame), FrameMax(frame))

\* A window hint is missing or is no number.
HintsUnusable ==
    \/ window_center.t \in {"absent", "str"}
    \/ window_width.t \in {"absent", "str"}

\* C22: when the window hints are absent or malformed, the single image and
\* every frame of a frame stack (not constant, not 8-bit unsigned) come out
\* as the min-max stretch of the frame, and no error is raised: the decode
\* does not fail because of the hints.
C22_UnusableHintsFallBack ==
    (HintsUnusable /\ pixel_array.dtype # "uint8") =>
        /\ ~norm_error
        /\ \A n \in Normalized :
              ~Constant(n.frame) => (~n.res.raised /\ n.res.out = MinMaxStretch(n.frame))

\* The places of the queue that hold a Progress message.
ProgressPlaces == {k \in 1..Len(queue) : queue[k].type = "progress"}

\* The Progress message of enumerate index i: percent (i + 1) / n * 100.
ProgressFor(i, n) == [num |-> (i + 1) * 100, den |-> n]

\* C23: in an uncancelled loadAsync run over N >= 1 paths a Progress message
\* with percent (i+1)/N*100 is appended for every extracted index i with
\* i mod 3 = 0 and for the last index N-1 whether or not its extraction
\* succeeded; the percents are non-decreasing, lie in (0, 100], and the last
\* Progress before Completed reports 100.
C23_ProgressReported ==
    (load_end = "complete" /\ total_files >= 1) =>
        /\ \A i \in 0..(total_files - 1) :
              ((i % 3 = 0 /\ dcm[i + 1].ok) \/ i = total_files - 1) =>
                  \E k \in ProgressPlaces : queue[k].data = ProgressFor(i, total_files)
        /\ \A k, l \in ProgressPlaces :
              k < l => queue[k].data.num * queue[l].data.den
                          <= queue[l].data.num * queue[k].data.den
        /\ \A k \in ProgressPlaces :
              /\ queue[k].data.num > 0
              /\ queue[k].data.num <= 100 * queue[k].data.den
        /\ \E k \in ProgressPlaces :
              /\ queue[k].data.num = 100 * queue[k].data.den
              /\ \A l \in ProgressPlaces : l <= k

\* How often f stands in the list.
Count(list, f) == Cardinality({j \in 1..Len(list) : list[j] = f})

\* An extension of more than 4 characters, the dot counted, that is on
\* neither list.
LongUnknown(f) == ~Certain(f) /\ ~Blacklisted(f) /\ Len(f.ext) > 4

\* C24 (as claimed): every collected file is rejected for its blacklisted
\* extension, or is a certain record, or is a candidate: a collected file
\* without a blacklisted extension is returned as certain or handed to the
\* detector.
C24_ThreeClasses ==
    (Returned /\ all_files # <<>>) =>
        \A f \in Elements(all_files) :
            /\ Blacklisted(f) => (Count(definitely_dicom, f) = 0 /\ Count(potential_dicom, f) = 0)
            /\ ~Blacklisted(f) =>
                  \/ /\ Count(definitely_dicom, f) = 1
                     /\ Count(potential_dicom, f) = 0
                     /\ f \in Elements(dicom_files)
                     /\ f \notin probed
                  \/ /\ Count(definitely_dicom, f) = 0
                     /\ Count(potential_dicom, f) = 1
                     /\ f \in probed

\* C24 (amended): every collected file falls in exactly one of four classes:
\* blacklisted extension (rejected), record extension (certain: returned,
\* not probed), no extension or an unknown one of at most 4 characters
\* (candidate: probed), unknown extension of more than 4 characters
\* (rejected like the blacklisted ones).
C24_FourClasses ==
    (Returned /\ all_files # <<>>) =>
        \A f \in Elements(all_files) :
            /\ (Blacklisted(f) \/ LongUnknown(f)) =>
                  /\ Count(definitely_dicom, f) = 0
                  /\ Count(potential_dicom, f) = 0
                  /\ f \notin Elements(dicom_files)
                  /\ f \notin probed
            /\ Certain(f) =>
                  /\ Count(definitely_dicom, f) = 1
                  /\ Count(potential_dicom, f) = 0
                  /\ f \in Elements(dicom_files)
                  /\ f \notin probed
            /\ Candidate(f) =>
                  /\ Count(definitely_dicom, f) = 0
                  /\ Count(potential_dicom, f) = 1
                  /\ f \in probed
            /\ Cardinality({c \in {"black", "long", "certain", "candidate"} :
                               \/ c = "black" /\ Blacklisted(f)
                               \/ c = "long" /\ LongUnknown(f)
                               \/ c = "certain" /\ Certain(f)
                               \/ c = "candidate" /\ Candidate(f)}) = 1

\* A scan of the root with all its seven files has returned: one file is
\* certain, four were probed, and the text file and the file with the long
\* extension are in neither list.
C24_Witness ==
    /\ Returned
    /\ Len(all_files) = 7
    /\ Len(definitely_dicom) = 1
    /\ Len(potential_dicom) = 4
    /\ Cardinality(probed) = 4
    /\ \E f \in Elements(all_files) : LongUnknown(f) /\ f \notin probed
    /\ \E f \in Elements(all_files) : Blacklisted(f) /\ f \notin probed

\* is_dicom_video has returned on the file.
VideoClassified == probe # <<>>

\* The check matches, a check that raises counting as one that does not.
SyntaxMatches == file_path.ts = "video"

SopMatches == file_path.sop = "video"

FramesMatch == file_path.frames.t # "raises" /\ frame_check(file_path)

ModalityMatches == file_path.modality # "unhashable" /\ modality_check(file_path)

\* One of the four checks raises outside an inner try.
SomeCheckRaises ==
    \/ file_path.ts = "raises"
    \/ file_path.sop = "raises"
    \/ file_path.frames.t = "raises"
    \/ file_path.modality = "unhashable"

\* C25: when a check of is_dicom_video raises, only that check counts as not
\* matching: the result on a readable file is true exactly when one of the
\* four checks matches, the later ones included.
C25_RaisingCheckOnlyFails ==
    (VideoClassified /\ file_path.reads) =>
        (probe.ret <=> (SyntaxMatches \/ SopMatches \/ FramesMatch \/ ModalityMatches))

\* A readable file whose transfer syntax and SOP class are read without an
\* error and are no video identifiers, with a frame count that is a number.
PlainRecord ==
    /\ VideoClassified
    /\ file_path.reads
    /\ file_path.ts = "other"
    /\ file_path.sop = "other"
    /\ file_path.frames.t = "int"

\* The hint is in the file.
Present(h) == h.t # "absent"

\* The hint is in the file with a value that is not zero.
Usable(h) == h.t = "int" /\ h.v # 0

\* The modality is a video modality and the full decode has a leading
\* dimension above 1.
DecodesAsStack ==
    /\ file_path.modality \in {"XC", "VL", "ES", "OP", "US"}
    /\ ~file_path.decode.raises
    /\ file_path.decode.shape[1] > 1

\* C26 (as claimed): on such a record is_dicom_video returns true whenever
\* the frame count is above 1 and a frame-timing hint is present or the
\* count is above 10; with a count of at most 10 and no hint it returns true
\* only for a video modality whose decode has a leading dimension above 1.
C26_FrameCountRule ==
    PlainRecord =>
        /\ (/\ file_path.frames.v > 1
            /\ \/ Present(file_path.frame_time)
               \/ Present(file_path.frame_increment_pointer)
               \/ file_path.frames.v > 10) => probe.ret
        /\ (/\ file_path.frames.v <= 10
            /\ ~Present(file_path.frame_time)
            /\ ~Present(file_path.frame_increment_pointer)) => (probe.ret => DecodesAsStack)

\* C26 (amended): the same with a hint counting only when its value is not
\* zero: a frame count above 10 yields true without any hint, and with a
\* count of at most 10 and no hint of non-zero value the result is true only
\* for a video modality whose decode has a leading dimension above 1.
C26_FrameCountRuleNonZeroHint ==
    PlainRecord =>
        /\ (/\ file_path.frames.v > 1
            /\ \/ Usable(file_path.frame_time)
               \/ Usable(file_path.frame_increment_pointer)
               \/ file_path.frames.v > 10) => probe.ret
        /\ (/\ file_path.frames.v <= 10
            /\ ~Usable(file_path.frame_time)
            /\ ~Usable(file_path.frame_increment_pointer)) => (probe.ret => DecodesAsStack)

\* A CT record of 11 frames without any hint, whose decode fails, is
\* classified as video by the frame-count check.
C26_Witness ==
    /\ PlainRecord
    /\ file_path.frames = Number(11)
    /\ file_path.frame_time = Absent
    /\ file_path.frame_increment_pointer = Absent
    /\ file_path.modality = "CT"
    /\ file_path.decode.raises
    /\ probe = [ret |-> TRUE, did |-> <<"syntax", "sop", "frames">>]

\* C27: whenever a drain gives a run's terminal message to the callback, the
\* running flag is clear as the drain begins, so that a request the callback
\* issues passes the test of running.
C27_RunningClearedAtTerminal ==
    [][TerminalRuns(lastBatch') # {} => ~running]_vars

\* C28: every message a drain takes off the queue, the terminal messages in
\* particular, is given to the callback by that drain: none is discarded.
C28_NoTerminalDiscarded == lastRemoved = Len(lastBatch)

\* C29: a message a drain gives to the callback while a run is in flight
\* was appended by the worker of that run, never by an earlier run.
C29_OnlyOwnMessagesDelivered ==
    [][\A j \in 1..Len(lastBatch') :
          ActiveRuns # {} => lastBatch'[j].run \in ActiveRuns]_vars

\* No worker is running, nothing is queued and no forced check is pending:
\* without a new request no drain will find a message again.
Quiescent == ActiveRuns = {} /\ queue = <<>> /\ forcePending = 0

\* C30: never more than one polling schedule of _check_queue is active, and
\* the polling a request started is stopped once its run is over and
\* drained, a run cancelled with stop_loading included.
C30_PollingStopped ==
    /\ polls <= 1
    /\ Quiescent => polls = 0

====
